---- MODULE Spec2Model ----
(***************************************************************************)
(* Model of idd1.py: a command-line registry of people kept in an SQLite   *)
(* file with two tables, people and numbers.  One program invocation is a  *)
(* process: main() parses the command line, creates the schema and runs    *)
(* one of add / display / find.  The persisted file is `db`; the changes   *)
(* of the connection's open transaction are `tx`, invisible to any other   *)
(* reader of the file until commit.                                        *)
(***************************************************************************)
EXTENDS Integers, Sequences, FiniteSets, TLC

VARIABLES
    db,         \* the persisted database file: schema, rows, sqlite_sequence
    tx,         \* <<>> or <<store>>: the open transaction of add_worker's connection
    pc,         \* position of the running process in main()
    argv,       \* command line of the running process
    args,       \* the Namespace parse_args returned
    worker_id,  \* add_worker's local worker_id
    stdout,     \* lines printed by the running process
    status      \* how the process ended: "ok", "usage", or the exception raised

vars == <<db, tx, pc, argv, args, worker_id, stdout, status>>

----------------------------------------------------------------------------
(* Bounds and input domains *)

MaxPeople == 2

Names == { <<"S","m","i","t","h">>, <<"s","m","i","t","h">>, <<"J","o","n","e","s">> }

Birthdays == { "1990-01-01", "1991-02-02" }

Phones == { 555, 556 }

Queries == { <<>>, <<"S","m">>, <<"s","M">>, <<"J","o">>, <<"X">>,
             <<"S","m","i","t","h","y">>, <<"_","m">>, <<"%","h">> }

Wildcards == { "%", "_" }

----------------------------------------------------------------------------
(* Python values *)

None == <<>>
Some(x) == <<x>>

NoCommand == "None"

DefaultDb == "workers.db"

----------------------------------------------------------------------------
(* The SQLite store: schema, rows and the AUTOINCREMENT bookkeeping *)

NumbersColumns == { "human_id", "phone_number" }

PeopleColumns == { "human_id", "human_name", "human_bd" }

NoFile == [ schema |-> [ t \in {} |-> {} ],
            people |-> {},
            numbers |-> {},
            seq |-> [ t \in {"people", "numbers"} |-> 0 ] ]

Max(a, b) == IF a >= b THEN a ELSE b

MaxRowid(rows) ==
    IF rows = {} THEN 0
    ELSE CHOOSE m \in { r.human_id : r \in rows } :
            \A r \in rows : r.human_id <= m

\* CREATE TABLE IF NOT EXISTS t (cols)
CreateTableIfNotExists(s, t, cols) ==
    IF t \in DOMAIN s.schema
    THEN s
    ELSE [ s EXCEPT !.schema = (t :> cols) @@ s.schema ]

\* variant: the tables are dropped and created anew on every call
create_db_recreate(s) ==
    [ schema |-> ("people" :> PeopleColumns) @@ ("numbers" :> NumbersColumns),
      people |-> {},
      numbers |-> {},
      seq |-> [ t \in {"people", "numbers"} |-> 0 ] ]

\* create_db: both CREATE TABLE IF NOT EXISTS statements, each autocommitted
create_db(s) ==
    CreateTableIfNotExists(
        CreateTableIfNotExists(s, "numbers", NumbersColumns),
        "people", PeopleColumns)

\* rowid an AUTOINCREMENT table hands out when none is given
NextRowid(s, t, rows) == Max(s.seq[t], MaxRowid(rows)) + 1

\* INSERT INTO people (human_name, human_bd) VALUES (?, ?)
InsertPeople(s, name, birthday) ==
    LET id == NextRowid(s, "people", s.people) IN
    [ s EXCEPT !.people = s.people \cup
                   { [ human_id |-> id, human_name |-> name, human_bd |-> birthday ] },
               !.seq = [ s.seq EXCEPT !["people"] = id ] ]

\* variant: the id is read before the INSERT has advanced the sequence
LastRowid_stale(s) == s.seq["people"] - 1

\* cursor.lastrowid after the INSERT into people
LastRowid(s) == s.seq["people"]

\* variant: INSERT OR REPLACE, a row with the same human_id is overwritten
InsertNumbers_replace(s, id, number) ==
    IF number = None
    THEN [ err |-> "IntegrityError", store |-> s ]
    ELSE [ err |-> "",
           store |-> [ s EXCEPT
               !.numbers = { r \in s.numbers : r.human_id /= id } \cup
                   { [ human_id |-> id, phone_number |-> number[1] ] },
               !.seq = [ s.seq EXCEPT !["numbers"] = Max(s.seq["numbers"], id) ] ] ]

\* variant: human_id of numbers is a plain column, not the table's key
InsertNumbers_nokey(s, id, number) ==
    IF number = None
    THEN [ err |-> "IntegrityError", store |-> s ]
    ELSE [ err |-> "",
           store |-> [ s EXCEPT
               !.numbers = s.numbers \cup
                   { [ human_id |-> id, phone_number |-> number[1] ] },
               !.seq = [ s.seq EXCEPT !["numbers"] = Max(s.seq["numbers"], id) ] ] ]

\* INSERT INTO numbers (human_id, phone_number) VALUES (?, ?):
\* phone_number is NOT NULL and human_id is the table's PRIMARY KEY
InsertNumbers(s, id, number) ==
    IF number = None
    THEN [ err |-> "IntegrityError", store |-> s ]
    ELSE IF \E r \in s.numbers : r.human_id = id
    THEN [ err |-> "IntegrityError", store |-> s ]
    ELSE [ err |-> "",
           store |-> [ s EXCEPT
               !.numbers = s.numbers \cup
                   { [ human_id |-> id, phone_number |-> number[1] ] },
               !.seq = [ s.seq EXCEPT !["numbers"] = Max(s.seq["numbers"], id) ] ] ]

----------------------------------------------------------------------------
(* SELECT over numbers INNER JOIN people *)

\* every table.column a statement names must exist, or sqlite3 raises OperationalError
ColumnsExist(s, refs) ==
    \A ref \in refs :
        /\ ref[1] \in DOMAIN s.schema
        /\ ref[2] \in s.schema[ref[1]]

\* numbers INNER JOIN people ON people.human_id = numbers.human_id
Join(s) ==
    { pn \in s.people \X s.numbers : pn[1].human_id = pn[2].human_id }

RECURSIVE InScanOrder(_)
\* the joined rows in the order of the scan of numbers by rowid
InScanOrder(pairs) ==
    IF pairs = {} THEN <<>>
    ELSE LET first == CHOOSE x \in pairs :
                          \A y \in pairs : x[2].human_id <= y[2].human_id
         IN  <<first>> \o InScanOrder(pairs \ {first})

ToLower(c) ==
    LET upper == <<"A","B","C","D","E","F","G","H","I","J","K","L","M",
                   "N","O","P","Q","R","S","T","U","V","W","X","Y","Z">>
        lower == <<"a","b","c","d","e","f","g","h","i","j","k","l","m",
                   "n","o","p","q","r","s","t","u","v","w","x","y","z">>
    IN  IF \E i \in 1..26 : upper[i] = c
        THEN lower[CHOOSE i \in 1..26 : upper[i] = c]
        ELSE c

\* variant: the characters are compared exactly, as GLOB does
LikeCharEq_exact(a, b) == a = b

\* LIKE compares one pattern character with one text character ignoring ASCII case
LikeCharEq(a, b) == ToLower(a) = ToLower(b)

RECURSIVE Like(_, _)
\* text LIKE pattern, with no ESCAPE clause
Like(text, pattern) ==
    IF pattern = <<>> THEN text = <<>>
    ELSE IF Head(pattern) = "%"
    THEN \E k \in 0..Len(text) : Like(SubSeq(text, k + 1, Len(text)), Tail(pattern))
    ELSE IF text = <<>> THEN FALSE
    ELSE IF Head(pattern) = "_" THEN Like(Tail(text), Tail(pattern))
    ELSE LikeCharEq(Head(text), Head(pattern)) /\ Like(Tail(text), Tail(pattern))

\* the list of dicts built from the fetched rows; the third selected column
\* is numbers.<numberColumn>
Records(pairs, numberColumn) ==
    LET rows == InScanOrder(pairs) IN
    [ i \in 1..Len(rows) |->
        [ name |-> rows[i][1].human_name,
          birthday |-> rows[i][1].human_bd,
          number |-> rows[i][2][numberColumn] ] ]

select_all(s) ==
    IF ~ColumnsExist(s, { <<"people", "human_name">>, <<"people", "human_bd">>,
                          <<"numbers", "phone">>,
                          <<"people", "human_id">>, <<"numbers", "human_id">> })
    THEN [ err |-> "OperationalError", rows |-> <<>> ]
    ELSE [ err |-> "", rows |-> Records(Join(s), "phone") ]

find_worker(s, name) ==
    IF ~ColumnsExist(s, { <<"people", "human_name">>, <<"people", "human_bd">>,
                          <<"numbers", "phone_number">>,
                          <<"people", "human_id">>, <<"numbers", "human_id">> })
    THEN [ err |-> "OperationalError", rows |-> <<>> ]
    ELSE [ err |-> "",
           rows |-> Records({ pn \in Join(s) : Like(pn[1].human_name, name \o <<"%">>) },
                            "phone_number") ]

----------------------------------------------------------------------------
(* display_workers: the lines it prints *)

display_workers(people) ==
    IF people /= <<>>
    THEN LET line == [ kind |-> "line" ]
             RECURSIVE body(_)
             body(i) ==
                 IF i > Len(people) THEN <<>>
                 ELSE << [ kind |-> "row", idx |-> i, name |-> people[i].name,
                           number |-> people[i].number,
                           birthday |-> people[i].birthday ],
                         line >> \o body(i + 1)
         IN  << line, [ kind |-> "header" ], line >> \o body(1)
    ELSE << [ kind |-> "empty" ] >>

----------------------------------------------------------------------------
(* argparse: the command line as the record of what was given *)

Commands == { "add", "display", "find" }

BareArgv == [ prog |-> "people" ]

Argvs ==
    { BareArgv }
    \cup { [ prog |-> "people", version |-> TRUE ] }
    \cup { [ prog |-> "people", command |-> "remove" ] }
    \cup { [ prog |-> "people", command |-> "display" ] }
    \cup { [ prog |-> "people", command |-> "find" ] }
    \cup { [ prog |-> "people", command |-> "add", name |-> n ] : n \in Names }
    \cup { [ prog |-> "people", command |-> "find", name |-> q ] : q \in Queries }
    \cup { [ prog |-> "people", command |-> "add", name |-> n, birthday |-> b ] :
             n \in Names, b \in Birthdays }
    \cup { [ prog |-> "people", command |-> "add", name |-> n, birthday |-> b,
             number |-> p ] : n \in Names, b \in Birthdays, p \in Phones }

Given(a, opt) == opt \in DOMAIN a

\* parser.parse_args: exit is "" when a Namespace is returned, "usage" when
\* argparse reports an error (exit 2), "version" when --version prints and exits 0
parse_args(a) ==
    IF Given(a, "version")
    THEN [ exit |-> "version", ns |-> [ command |-> NoCommand ] ]
    ELSE IF ~Given(a, "command")
    THEN [ exit |-> "", ns |-> [ command |-> NoCommand ] ]
    ELSE IF a.command \notin Commands
    THEN [ exit |-> "usage", ns |-> [ command |-> NoCommand ] ]
    ELSE IF a.command = "add"
    THEN IF Given(a, "name") /\ Given(a, "birthday")
         THEN [ exit |-> "",
                ns |-> [ command |-> "add", db |-> DefaultDb, name |-> a.name,
                         number |-> IF Given(a, "number") THEN Some(a.number) ELSE None,
                         birthday |-> a.birthday ] ]
         ELSE [ exit |-> "usage", ns |-> [ command |-> NoCommand ] ]
    ELSE IF a.command = "find"
    THEN IF Given(a, "name")
         THEN [ exit |-> "",
                ns |-> [ command |-> "find", db |-> DefaultDb, name |-> a.name ] ]
         ELSE [ exit |-> "usage", ns |-> [ command |-> NoCommand ] ]
    ELSE [ exit |-> "", ns |-> [ command |-> "display", db |-> DefaultDb ] ]

----------------------------------------------------------------------------
(* The process *)

\* what the connection of add_worker sees: its own transaction if one is open
View == IF tx = <<>> THEN db ELSE tx[1]

\* variant: the lookup never finds the name
LookupByName_never(s, name) == None

\* SELECT human_id FROM people WHERE human_name = ? ; fetchone()
LookupByName(s, name) ==
    LET found == { r \in s.people : r.human_name = name } IN
    IF found = {} THEN None
    ELSE Some((CHOOSE r \in found : \A q \in found : r.human_id <= q.human_id).human_id)

Init ==
    /\ db = NoFile
    /\ tx = <<>>
    /\ pc = "idle"
    /\ argv = BareArgv
    /\ args = [ command |-> NoCommand ]
    /\ worker_id = 0
    /\ stdout = <<>>
    /\ status = ""

\* an add of a new name is offered only while the people table is below MaxPeople
WithinBounds(a) ==
    (Given(a, "command") /\ a.command = "add" /\ Given(a, "name"))
        => \/ \E r \in db.people : r.human_name = a.name
           \/ Cardinality(db.people) < MaxPeople

\* main() up to the dispatch on args.command: parse_args, Path(args.db), create_db
Main(a) ==
    /\ pc = "idle"
    /\ WithinBounds(a)
    /\ argv' = a
    /\ LET r == parse_args(a) IN
       /\ args' = r.ns
       /\ IF r.exit = "version"
          THEN /\ stdout' = << [ kind |-> "version" ] >>
               /\ status' = "ok"
               /\ pc' = "exit"
               /\ db' = db
          ELSE IF r.exit = "usage"
          THEN /\ status' = "usage"
               /\ pc' = "exit"
               /\ UNCHANGED <<db, stdout>>
          ELSE IF "db" \notin DOMAIN r.ns
          THEN /\ status' = "AttributeError"
               /\ pc' = "exit"
               /\ UNCHANGED <<db, stdout>>
          ELSE /\ db' = create_db(db)
               /\ status' = "running"
               /\ pc' = "dispatch"
               /\ stdout' = stdout
    /\ UNCHANGED <<tx, worker_id>>

\* variant: the connection is in autocommit mode, the INSERT into people is
\* persisted at once
AddWorkerLookup_autocommit ==
    /\ pc = "dispatch"
    /\ args.command = "add"
    /\ LET row == LookupByName(db, args.name) IN
       IF row = None
       THEN LET s == InsertPeople(db, args.name, args.birthday) IN
            /\ db' = s
            /\ worker_id' = LastRowid(s)
       ELSE /\ worker_id' = row[1]
            /\ db' = db
    /\ pc' = "add_number"
    /\ UNCHANGED <<tx, argv, args, stdout, status>>

\* add_worker, the SELECT and, for a new name, the INSERT into people, which
\* opens the connection's implicit transaction
AddWorkerLookup ==
    /\ pc = "dispatch"
    /\ args.command = "add"
    /\ LET row == LookupByName(View, args.name) IN
       IF row = None
       THEN LET s == InsertPeople(View, args.name, args.birthday) IN
            /\ tx' = <<s>>
            /\ worker_id' = LastRowid(s)
       ELSE /\ worker_id' = row[1]
            /\ tx' = tx
    /\ pc' = "add_number"
    /\ UNCHANGED <<db, argv, args, stdout, status>>

\* add_worker, the INSERT into numbers; an exception ends the process, and the
\* uncommitted transaction is rolled back when the connection goes away
AddWorkerInsertNumber ==
    /\ pc = "add_number"
    /\ LET r == InsertNumbers(View, worker_id, args.number) IN
       IF r.err /= ""
       THEN /\ tx' = <<>>
            /\ status' = r.err
            /\ pc' = "exit"
       ELSE /\ tx' = <<r.store>>
            /\ status' = status
            /\ pc' = "add_commit"
    /\ UNCHANGED <<db, argv, args, worker_id, stdout>>

\* add_worker, conn.commit() and conn.close()
AddWorkerCommit ==
    /\ pc = "add_commit"
    /\ db' = View
    /\ tx' = <<>>
    /\ status' = "ok"
    /\ pc' = "exit"
    /\ UNCHANGED <<argv, args, worker_id, stdout>>

\* display_workers(select_all(db_path))
Display ==
    /\ pc = "dispatch"
    /\ args.command = "display"
    /\ LET r == select_all(db) IN
       IF r.err /= ""
       THEN /\ status' = r.err
            /\ stdout' = stdout
       ELSE /\ status' = "ok"
            /\ stdout' = display_workers(r.rows)
    /\ pc' = "exit"
    /\ UNCHANGED <<db, tx, argv, args, worker_id>>

\* display_workers(find_worker(db_path, args.name))
Find ==
    /\ pc = "dispatch"
    /\ args.command = "find"
    /\ LET r == find_worker(db, args.name) IN
       IF r.err /= ""
       THEN /\ status' = r.err
            /\ stdout' = stdout
       ELSE /\ status' = "ok"
            /\ stdout' = display_workers(r.rows)
    /\ pc' = "exit"
    /\ UNCHANGED <<db, tx, argv, args, worker_id>>

\* the process is gone; the next invocation starts from the persisted file alone
Exit ==
    /\ pc = "exit"
    /\ pc' = "idle"
    /\ argv' = BareArgv
    /\ args' = [ command |-> NoCommand ]
    /\ worker_id' = 0
    /\ stdout' = <<>>
    /\ status' = ""
    /\ UNCHANGED <<db, tx>>

Next ==
    \/ \E a \in Argvs : Main(a)
    \/ AddWorkerLookup
    \/ AddWorkerInsertNumber
    \/ AddWorkerCommit
    \/ Display
    \/ Find
    \/ Exit

Spec == Init /\ [][Next]_vars

----------------------------------------------------------------------------
(* Vocabulary of the properties *)

Ids(rows) == { r.human_id : r \in rows }

HasName(s, name) == \E p \in s.people : p.human_name = name

\* the flat records of every Person paired with every PhoneNumber of its id
FlatJoin(s) ==
    { [ name |-> p.human_name, birthday |-> p.human_bd, number |-> n.phone_number ] :
        <<p, n>> \in { pn \in s.people \X s.numbers : pn[1].human_id = pn[2].human_id } }

RowLines == { i \in DOMAIN stdout : stdout[i].kind = "row" }

PrintedRecords ==
    { [ name |-> stdout[i].name, birthday |-> stdout[i].birthday,
        number |-> stdout[i].number ] : i \in RowLines }

\* stdout is the rendering of exactly the records of `recs`
Printed(recs) ==
    IF recs = {}
    THEN stdout = << [ kind |-> "empty" ] >>
    ELSE /\ PrintedRecords = recs
         /\ Cardinality(RowLines) = Cardinality(recs)

StartsWith(text, prefix) ==
    /\ Len(prefix) <= Len(text)
    /\ \A i \in 1..Len(prefix) : text[i] = prefix[i]

StartsWithNoAsciiCase(text, prefix) ==
    /\ Len(prefix) <= Len(text)
    /\ \A i \in 1..Len(prefix) : ToLower(text[i]) = ToLower(prefix[i])

NoWildcard(q) == \A i \in 1..Len(q) : q[i] \notin Wildcards

\* the step that ends an add invocation
AddEnds == args.command = "add" /\ pc \in {"add_number", "add_commit"} /\ pc' = "exit"

\* a step inside add_worker
InAddWorker == args.command = "add" /\ pc \in {"dispatch", "add_number", "add_commit"}

----------------------------------------------------------------------------
(* C1: an add under the exact name of an existing Person, with an integer   *)
(* phone, succeeds, adds no Person row and adds exactly one PhoneNumber row *)
(* carrying that Person's id and the phone; the Person's birthday stays.    *)
C1_AddUnderExistingName ==
    [][ (AddEnds /\ HasName(db, args.name) /\ args.number /= None) =>
          /\ status' = "ok"
          /\ db'.people = db.people
          /\ \E p \in db.people :
                /\ p.human_name = args.name
                /\ db'.numbers = db.numbers \cup
                      { [ human_id |-> p.human_id, phone_number |-> args.number[1] ] }
          /\ Cardinality(db'.numbers) = Cardinality(db.numbers) + 1 ]_vars

(* C2: an add under a name no Person has, with an integer phone, succeeds   *)
(* and persists exactly one new Person row (fresh id, the given name and    *)
(* birthday) and one new PhoneNumber row with that id and the phone; every  *)
(* earlier row is unchanged, and nothing is persisted before the commit.    *)
C2_AddNewName ==
    [][ /\ (AddEnds /\ ~HasName(db, args.name) /\ args.number /= None) =>
              /\ status' = "ok"
              /\ \E id \in (Ids(db'.people) \ (Ids(db.people) \cup Ids(db.numbers))) :
                    /\ db'.people = db.people \cup
                          { [ human_id |-> id, human_name |-> args.name,
                              human_bd |-> args.birthday ] }
                    /\ db'.numbers = db.numbers \cup
                          { [ human_id |-> id, phone_number |-> args.number[1] ] }
        /\ (InAddWorker /\ ~AddEnds) => db' = db ]_vars

C2_Witness ==
    /\ pc = "exit" /\ args.command = "add" /\ status = "ok"
    /\ Cardinality(db.people) = 2
    /\ \E p \in db.people : \E n \in db.numbers :
          /\ p.human_name = args.name /\ p.human_bd = args.birthday
          /\ n.human_id = p.human_id /\ n.phone_number = args.number[1]

(* C3: no two Person rows of the persisted store have the same name.        *)
C3_UniqueNames ==
    \A p, q \in db.people : p.human_name = q.human_name => p = q

C3_Witness ==
    /\ pc = "exit" /\ args.command = "add"
    /\ Cardinality(db.people) = 2
    /\ \E p \in db.people :
          p.human_name = args.name /\ p.human_bd /= args.birthday

(* C4: in every persisted state, during or after an add, every Person row   *)
(* has a PhoneNumber row with its id; an add that fails leaves the          *)
(* persisted store as it was when add_worker was called.                    *)
C4_EveryPersonHasNumber ==
    \A p \in db.people : \E n \in db.numbers : n.human_id = p.human_id

C4_AtomicAdd ==
    /\ []C4_EveryPersonHasNumber
    /\ [][ (InAddWorker /\ ~(pc' = "exit" /\ status' = "ok")) => db' = db ]_vars

C4_Witness ==
    /\ pc = "exit" /\ args.command = "add" /\ status = "IntegrityError"
    /\ args.number = None
    /\ ~HasName(db, args.name)
    /\ db.people /= {}

(* C5: display completes without error and lists exactly one record for     *)
(* each Person/PhoneNumber pair linked by the person id.                    *)
C5_DisplayListsJoin ==
    (pc = "exit" /\ args.command = "display") =>
        (status = "ok" /\ Printed(FlatJoin(db)))

(* C6 as stated: find with a wildcard-free query returns all and only the   *)
(* joined records whose name starts with the query, compared                *)
(* case-sensitively, and an empty result, not an error, when none does.     *)
C6_FindCaseSensitive ==
    (pc = "exit" /\ args.command = "find" /\ NoWildcard(args.name)) =>
        /\ status = "ok"
        /\ Printed({ r \in FlatJoin(db) : StartsWith(r.name, args.name) })

(* C6 amended: find with a wildcard-free query returns all and only the     *)
(* joined records whose name starts with the query when ASCII letters are   *)
(* compared without regard to case, and an empty result when none does.     *)
C6_FindNoAsciiCase ==
    (pc = "exit" /\ args.command = "find" /\ NoWildcard(args.name)) =>
        /\ status = "ok"
        /\ Printed({ r \in FlatJoin(db) : StartsWithNoAsciiCase(r.name, args.name) })

C6_Witness ==
    /\ pc = "exit" /\ args.command = "find" /\ args.name = <<"S","m">>
    /\ HasName(db, <<"S","m","i","t","h">>)
    /\ HasName(db, <<"s","m","i","t","h">>)
    /\ Cardinality(RowLines) = 2

(* C7: an invocation with no command, or an unrecognized one, runs none of  *)
(* add, display or find, prints nothing and ends successfully.              *)
C7_NoCommandIsSilentSuccess ==
    (/\ pc = "exit"
     /\ ~Given(argv, "version")
     /\ (Given(argv, "command") => argv.command \notin Commands)) =>
        (status = "ok" /\ stdout = <<>> /\ tx = <<>>)

(* C8: every run of create_db leaves exactly the tables people and numbers  *)
(* with their structure, leaves a store that already has them unchanged,    *)
(* and never changes a Person or PhoneNumber row.                           *)
C8_CreateDbIdempotent ==
    [][ (pc = "idle" /\ pc' = "dispatch") =>
          /\ DOMAIN db'.schema = {"people", "numbers"}
          /\ db'.schema["people"] = PeopleColumns
          /\ db'.schema["numbers"] = NumbersColumns
          /\ (DOMAIN db.schema = {"people", "numbers"} => db' = db)
          /\ db'.people = db.people /\ db'.numbers = db.numbers /\ db'.seq = db.seq
          /\ create_db(db') = db' ]_vars

C8_Witness ==
    /\ pc = "dispatch"
    /\ Cardinality(db.people) = 2
    /\ Cardinality(db.numbers) = 2

(* C9: every persisted Person and PhoneNumber row stays, unchanged, in      *)
(* every later persisted state; display and find change nothing, and only   *)
(* an add that succeeds changes the store, by adding rows.                  *)
C9_RowsOnlyAdded ==
    [][ /\ db.people \subseteq db'.people
        /\ db.numbers \subseteq db'.numbers
        /\ (db'.people /= db.people \/ db'.numbers /= db.numbers) =>
              (args.command = "add" /\ pc' = "exit" /\ status' = "ok")
        /\ (pc = "dispatch" /\ args.command \in {"display", "find"}) => db' = db ]_vars

C9_Witness ==
    /\ pc = "exit" /\ args.command = "add" /\ status = "IntegrityError"
    /\ args.number /= None
    /\ \E p \in db.people : \E n \in db.numbers :
          /\ p.human_name = args.name /\ p.human_bd /= args.birthday
          /\ n.human_id = p.human_id /\ n.phone_number /= args.number[1]

(* C10: the human_id values of numbers are those of people, and every       *)
(* Person has exactly one PhoneNumber row.                                  *)
C10_OneNumberPerPerson ==
    /\ Ids(db.numbers) = Ids(db.people)
    /\ \A p \in db.people :
          Cardinality({ n \in db.numbers : n.human_id = p.human_id }) = 1

C10_Witness ==
    /\ pc = "exit" /\ args.command = "add" /\ status = "IntegrityError"
    /\ HasName(db, args.name)
    /\ args.number /= None
    /\ Cardinality(db.people) = 2

====
